---- MODULE Spec2Model ----
(***************************************************************************)
(* Identity and credential subsystem of the TecMise backend:               *)
(* registration, password login, profile update, tutorial flag and the     *)
(* federated (Google) find-or-create, run by concurrent request handlers   *)
(* against the shared table `usuarios`.                                    *)
(*                                                                         *)
(* Strings are sequences of one-character strings, so that ToLower,        *)
(* TrimSpace, len and Contains are computed character by character.        *)
(***************************************************************************)
EXTENDS Integers, Sequences, FiniteSets, TLC

(***************************************************************************)
(* Bounds and program constants                                            *)
(***************************************************************************)
\* largest value the SERIAL sequence of usuarios.id may hand out
MaxId == 2

\* model.MinPasswordLen
MinPasswordLen == 6
\* literal minimum of RegisterHandler
RegisterMinLen == 8
\* literal minimum of LoginHandler
LoginMinLen == 8

Procs == {"h1", "h2"}

(***************************************************************************)
(* Input alphabets                                                         *)
(***************************************************************************)
Vazio == << >>
\* SQL NULL, distinct from every string (strings hold one-character items)
Null == <<"NULL">>

eA   == <<"a", "@", "x">>
eAU  == <<"A", "@", "x">>
eB   == <<"b", "@", "x">>
ePad == <<" ", "a", "@", "x">>
eBad == <<"a", "x">>

pw1     == <<"p", "a", "s", "s", "w", "o", "r", "d">>
pw2     == <<"l", "e", "t", "m", "e", "i", "n", "1">>
pwSpace == <<"p", "a", "s", "s", " ", "w", "o", "r", "d">>
pw6     == <<"s", "e", "c", "r", "e", "t">>
pwCurta == <<"a", "b", "c">>

nAna   == <<"A", "n", "a">>
nCurto == <<" ", "A">>

sub1 == <<"s", "1">>
sub2 == <<"s", "2">>
pic1 == <<"u", "1">>

RegNomes   == {nAna, nCurto}
RegEmails  == {eA, eAU, ePad, eB, eBad}
RegSenhas  == {pw1, pw6, pwSpace}
LoginEmails == {eA, eAU, eB, eBad}
LoginSenhas == {pw1, pw2, pw6}
\* claims of a validated ID token
ClaimEmails   == {eA, eAU, eB, Vazio}
ClaimSubs     == {sub1, sub2, Vazio}
ClaimSubsUm   == {sub1, Vazio}
ClaimNames    == {nAna}
ClaimNamesFed == {nAna, Vazio}
ClaimPictures == {Vazio}
ClaimPicturesSeq == {Vazio, pic1}
eEsp == <<" ">>
HeaderEmails == {eA, eAU, ePad, eEsp, Vazio}
BuscaEmails  == {eAU, eB, Vazio}
PerfilEmails == {eA, eB, Vazio}
PerfilNomes  == {nAna, nCurto}
PerfilFotos  == {Vazio}
PerfilSenhas == {Vazio, pw2, pwCurta}
PerfilSenhasSeis == {Vazio, pw2, pw6, pwCurta}
\* the decoded body.TutorialVisto (*bool): nil, or one value
TutorialBodies   == {<< >>, <<TRUE>>, <<FALSE>>}
TutorialPresente == {<<TRUE>>, <<FALSE>>}

(***************************************************************************)
(* String functions of the Go standard library                             *)
(***************************************************************************)
LowerChar(c) ==
    CASE c = "A" -> "a"
      [] c = "B" -> "b"
      [] c = "G" -> "g"
      [] c = "Z" -> "z"
      [] c = "X" -> "x"
      [] OTHER -> c

ToLower(s) == [i \in DOMAIN s |-> LowerChar(s[i])]

RECURSIVE TrimLeft(_)
TrimLeft(s) ==
    IF s # << >> /\ Head(s) = " " THEN TrimLeft(Tail(s)) ELSE s

RECURSIVE TrimRight(_)
TrimRight(s) ==
    IF s # << >> /\ s[Len(s)] = " " THEN TrimRight(SubSeq(s, 1, Len(s) - 1)) ELSE s

TrimSpace(s) == TrimRight(TrimLeft(s))

Contains(s, c) == \E i \in DOMAIN s : s[i] = c

\* net/mail.ParseAddress restricted to the addr-spec form local@domain over
\* the model's alphabet: surrounding blanks skipped, one "@", both parts
\* non-empty, no blank inside
ParseAddressOK(s) ==
    LET t == TrimSpace(s)
        ats == {i \in DOMAIN t : t[i] = "@"}
    IN  /\ Cardinality(ats) = 1
        /\ \A i \in ats : i > 1 /\ i < Len(t)
        /\ ~Contains(t, " ")

(***************************************************************************)
(* bcrypt                                                                  *)
(***************************************************************************)
\* GenerateFromPassword: a version prefix followed by a digest that is a
\* one-to-one function of the password (salt left out)
GenerateFromPassword(pw) == <<"$2a$">> \o pw

CompareFalhaSempreVazio(hash, pw) == hash = Vazio \/ hash = GenerateFromPassword(pw)

\* CompareHashAndPassword(hash, pw) = nil: a hash shorter than the minimum
\* hash size (the empty string included) is an error, never a match
CompareHashAndPassword(hash, pw) ==
    /\ Len(hash) >= 2
    /\ hash[1] = "$2a$"
    /\ SubSeq(hash, 2, Len(hash)) = pw

(***************************************************************************)
(* State                                                                   *)
(***************************************************************************)
VARIABLES
    usuarios,       \* rows of table usuarios
    nextId,         \* next value of the SERIAL sequence of usuarios.id
    colGoogleSub,   \* whether the deployed table has column google_sub
    schemaChecked,  \* SQLUserRepo.schemaChecked
    hasGoogleSub,   \* SQLUserRepo.hasGoogleSub
    hasFotoURL,     \* SQLUserRepo.hasFotoURL
    pc,             \* position of each request handler
    req,            \* decoded (and sanitized) request of each handler
    u,              \* local *User of UpsertFromGoogle (step 2)
    resp,           \* response written by each handler
    criadoPor,      \* history: which operation inserted each id
    senhaViaPerfil, \* history: ids whose senha_hash a profile update wrote
    vinculos        \* history: every <<google_sub, id>> link ever written

vars == <<usuarios, nextId, colGoogleSub, schemaChecked, hasGoogleSub, hasFotoURL,
          pc, req, u, resp, criadoPor, senhaViaPerfil, vinculos>>

repoVars == <<schemaChecked, hasGoogleSub, hasFotoURL>>
histVars == <<criadoPor, senhaViaPerfil, vinculos>>

\* novo: history of a federated login, whether no account held its email
\* (ignoring case) when it began
NoReq  == [op |-> "none", nome |-> Vazio, email |-> Vazio, senha |-> Vazio,
           sub |-> Vazio, picture |-> Vazio, novo |-> FALSE]
NoUser == [id |-> 0, nome |-> Vazio, email |-> Vazio, foto |-> Vazio]
\* status, msg, id, nome, email, foto, tut: what the caller receives (status,
\* error message, and the fields of the JSON body);
\* why, row: history (the branch that answered, the id of the row it scanned)
NoResp == [status |-> 0, msg |-> "", id |-> 0, nome |-> Vazio, email |-> Vazio,
           foto |-> Vazio, tut |-> FALSE, why |-> "", row |-> 0]

Resp(status, msg, why) ==
    [status |-> status, msg |-> msg, id |-> 0, nome |-> Vazio, email |-> Vazio,
     foto |-> Vazio, tut |-> FALSE, why |-> why, row |-> 0]

Observable(r) ==
    [status |-> r.status, msg |-> r.msg, id |-> r.id, nome |-> r.nome,
     email |-> r.email, foto |-> r.foto, tut |-> r.tut]

Ids == {r.id : r \in usuarios}
RowById(id) == CHOOSE r \in usuarios : r.id = id

(***************************************************************************)
(* Storage                                                                 *)
(***************************************************************************)
\* COALESCE(x, '')
Coalesce(x) == IF x = Null THEN Vazio ELSE x

EmailCIExato(e) == {r \in usuarios : r.email = e}

\* WHERE LOWER(email) = LOWER($1)
EmailCI(e) == {r \in usuarios : ToLower(r.email) = ToLower(e)}

BySubNenhum(s) == {}

\* WHERE google_sub = $1
BySub(s) == {r \in usuarios : r.google_sub = s}

SemUnique(e) == FALSE

\* UNIQUE(email) of schema.sql: exact (case-sensitive) comparison
UniqueViolation(e) == \E r \in usuarios : r.email = e

NewRow(id, nome, email, hash, sub, foto) ==
    [id |-> id, nome |-> nome, email |-> email, senha_hash |-> hash,
     google_sub |-> sub, foto_url |-> foto, tutorial_visto |-> FALSE]

Init ==
    /\ usuarios = {}
    /\ nextId = 1
    /\ colGoogleSub \in BOOLEAN
    /\ schemaChecked = FALSE
    /\ hasGoogleSub = FALSE
    /\ hasFotoURL = FALSE
    /\ pc = [p \in Procs |-> "idle"]
    /\ req = [p \in Procs |-> NoReq]
    /\ u = [p \in Procs |-> NoUser]
    /\ resp = [p \in Procs |-> NoResp]
    /\ criadoPor = << >>
    /\ senhaViaPerfil = {}
    /\ vinculos = {}

Reply(p, r) ==
    /\ pc' = [pc EXCEPT ![p] = "done"]
    /\ resp' = [resp EXCEPT ![p] = r]

(***************************************************************************)
(* POST /register                                                          *)
(***************************************************************************)
\* RegisterRequest.Sanitize
SanitizeNome(s) == TrimSpace(s)
SanitizeEmail(s) == TrimSpace(ToLower(s))

RegisterValidateSemSenha(nome, email, senha) ==
    IF TrimSpace(nome) = Vazio \/ Len(nome) < 2 THEN "Nome muito curto"
    ELSE IF ~ParseAddressOK(email) THEN "E-mail inválido"
    ELSE "ok"

RegisterValidate(nome, email, senha) ==
    IF TrimSpace(nome) = Vazio \/ Len(nome) < 2 THEN "Nome muito curto"
    ELSE IF ~ParseAddressOK(email) THEN "E-mail inválido"
    ELSE IF Len(senha) < RegisterMinLen \/ Contains(senha, " ")
         THEN "Senha muito curta (mínimo 8 caracteres e sem espaços)"
    ELSE "ok"

\* decode, Sanitize, validate: no storage access
RegisterStart(p, nome, email, senha) ==
    /\ pc[p] = "idle"
    /\ LET n == SanitizeNome(nome)
           e == SanitizeEmail(email)
           v == RegisterValidate(n, e, senha)
       IN  IF v = "ok"
           THEN /\ req' = [req EXCEPT ![p] = [NoReq EXCEPT !.op = "register", !.nome = n,
                                                           !.email = e, !.senha = senha]]
                /\ pc' = [pc EXCEPT ![p] = "reg_check"]
                /\ UNCHANGED resp
           ELSE /\ Reply(p, Resp(400, v, "validation"))
                /\ UNCHANGED req
    /\ UNCHANGED <<usuarios, nextId, colGoogleSub, repoVars, u, histVars>>

PreCheckExato(e) == EmailCIExato(e) # {}

\* SELECT EXISTS(SELECT 1 FROM usuarios WHERE LOWER(email)=LOWER($1))
PreCheckExists(e) == EmailCI(e) # {}

RegisterCheck(p, dbOk) ==
    /\ pc[p] = "reg_check"
    /\ IF ~dbOk THEN Reply(p, Resp(500, "Erro ao verificar e-mail", "check_failed"))
       ELSE IF PreCheckExists(req[p].email)
       THEN Reply(p, Resp(409, "E-mail já cadastrado", "precheck"))
       ELSE /\ pc' = [pc EXCEPT ![p] = "reg_insert"]
            /\ UNCHANGED resp
    /\ UNCHANGED <<usuarios, nextId, colGoogleSub, repoVars, req, u, histVars>>

InsertErrorSemFallback(code) == Resp(500, "Erro ao salvar usuário", "insert_failed")

\* the answer to a failed INSERT: pq code 23505 (unique_violation) is a conflict
InsertError(code) ==
    IF code = "23505" THEN Resp(409, "E-mail já cadastrado", "unique")
    ELSE Resp(500, "Erro ao salvar usuário", "insert_failed")

\* bcrypt hash, then INSERT INTO usuarios (nome, email, senha_hash)
RegisterInsert(p, dbOk) ==
    /\ pc[p] = "reg_insert"
    /\ \/ /\ ~dbOk
          /\ Reply(p, InsertError("08006"))
          /\ UNCHANGED <<usuarios, nextId, histVars>>
       \/ /\ dbOk
          /\ nextId <= MaxId
          /\ nextId' = nextId + 1
          /\ IF UniqueViolation(req[p].email)
             THEN /\ Reply(p, InsertError("23505"))
                  /\ UNCHANGED <<usuarios, histVars>>
             ELSE /\ usuarios' = usuarios \cup
                        {NewRow(nextId, req[p].nome, req[p].email,
                                GenerateFromPassword(req[p].senha),
                                Null, Null)}
                  /\ criadoPor' = criadoPor @@ (nextId :> "register")
                  /\ UNCHANGED <<senhaViaPerfil, vinculos>>
                  /\ Reply(p, [Resp(201, "ok", "inserted") EXCEPT !.row = nextId])
    /\ UNCHANGED <<colGoogleSub, repoVars, req, u>>

(***************************************************************************)
(* POST /login                                                             *)
(***************************************************************************)
LoginValidate(email, senha) ==
    IF ~ParseAddressOK(email) THEN "E-mail inválido"
    ELSE IF Len(senha) < LoginMinLen \/ Contains(senha, " ") THEN "Senha inválida"
    ELSE "ok"

LoginNaoEncontradoDistinto == Resp(404, "Usuário não encontrado", "login_norow")

\* answer of the sql.ErrNoRows branch
LoginNoRow == Resp(401, "E-mail ou senha incorretos", "login_norow")

\* answer of the bcrypt mismatch branch
LoginMismatch == Resp(401, "E-mail ou senha incorretos", "login_mismatch")

\* answer for the row the query scanned
LoginAnswer(r, e, senha) ==
    IF CompareHashAndPassword(r.senha_hash, senha)
    THEN [status |-> 200, msg |-> "ok", id |-> r.id, nome |-> r.nome, email |-> e,
          foto |-> Coalesce(r.foto_url), tut |-> FALSE,
          why |-> "login_match",
          row |-> r.id]
    ELSE [LoginMismatch EXCEPT !.row = r.id]

LoginHandler(p, email, senha, dbOk) ==
    /\ pc[p] = "idle"
    /\ LET e == SanitizeEmail(email)
           v == LoginValidate(e, senha)
       IN  /\ IF v # "ok"
              THEN Reply(p, Resp(400, v, "validation"))
              ELSE \/ /\ ~dbOk
                      /\ Reply(p, Resp(500, "Erro ao verificar usuário", "login_failed"))
                   \/ /\ dbOk
                      /\ EmailCI(e) = {}
                      /\ Reply(p, LoginNoRow)
                   \/ \E r \in EmailCI(e) :
                         /\ dbOk
                         /\ Reply(p, LoginAnswer(r, e, senha))
    /\ UNCHANGED <<usuarios, nextId, colGoogleSub, repoVars, req, u, histVars>>

(***************************************************************************)
(* PUT /api/perfil                                                         *)
(***************************************************************************)
PerfilFoto(fotoURL, fotoUrl) ==
    IF TrimSpace(fotoURL) = Vazio /\ TrimSpace(fotoUrl) # Vazio
    THEN TrimSpace(fotoUrl) ELSE TrimSpace(fotoURL)

PerfilUpdateSoAlvo(rows, nome, foto, senha) ==
    {[r EXCEPT !.nome = nome, !.foto_url = foto,
               !.senha_hash = IF senha = Vazio THEN @ ELSE GenerateFromPassword(senha)]
     : r \in rows}

\* UPDATE usuarios SET nome, foto_url [, senha_hash] WHERE LOWER(email)=LOWER($n)
PerfilUpdate(rows, nome, foto, senha) ==
    {IF r \in rows
     THEN [r EXCEPT !.nome = nome, !.foto_url = foto,
                    !.senha_hash = IF senha = Vazio THEN @
                                   ELSE GenerateFromPassword(senha)]
     ELSE r : r \in usuarios}

AtualizarPerfilHandler(p, hdr, nome, fotoURL, fotoUrl, senha, dbOk) ==
    /\ pc[p] = "idle"
    /\ LET email == TrimSpace(ToLower(hdr))
           n == TrimSpace(nome)
           s == TrimSpace(senha)
           foto == PerfilFoto(fotoURL, fotoUrl)
       IN  IF email = Vazio
           THEN /\ Reply(p, Resp(401, "Usuário não autenticado", "header"))
                /\ UNCHANGED <<usuarios, senhaViaPerfil>>
           ELSE IF Len(n) < 2
           THEN /\ Reply(p, Resp(400, "Nome muito curto", "validation"))
                /\ UNCHANGED <<usuarios, senhaViaPerfil>>
           ELSE IF s # Vazio /\ (Len(s) < MinPasswordLen \/ Contains(s, " "))
           THEN /\ Reply(p, Resp(400, "Senha inválida (mínimo 6 caracteres e sem espaços)",
                                "validation"))
                /\ UNCHANGED <<usuarios, senhaViaPerfil>>
           ELSE IF ~dbOk
           THEN /\ Reply(p, Resp(500, "Erro ao atualizar perfil", "storage"))
                /\ UNCHANGED <<usuarios, senhaViaPerfil>>
           ELSE \/ /\ EmailCI(email) = {}
                   /\ Reply(p, Resp(404, "Usuário não encontrado", "norow"))
                   /\ UNCHANGED <<usuarios, senhaViaPerfil>>
                \/ /\ EmailCI(email) # {}
                   /\ usuarios' = PerfilUpdate(EmailCI(email), n, foto, s)
                   /\ senhaViaPerfil' =
                         IF s = Vazio THEN senhaViaPerfil
                         ELSE senhaViaPerfil \cup {r.id : r \in EmailCI(email)}
                   /\ Reply(p, Resp(200, "ok", IF s = Vazio THEN "perfil" ELSE "perfil_senha"))
    /\ UNCHANGED <<nextId, colGoogleSub, repoVars, req, u, criadoPor, vinculos>>

(***************************************************************************)
(* GET /api/usuario?email=                                                 *)
(***************************************************************************)
BuscarRespostaComHash(r) ==
    [status |-> 200, msg |-> "ok", id |-> r.id, nome |-> r.nome, email |-> r.email,
     foto |-> r.senha_hash, tut |-> r.tutorial_visto,
     why |-> "busca", row |-> r.id]

\* the struct { id, nome, email, fotoUrl, tutorial_visto } scanned from the row
BuscarResposta(r) ==
    [status |-> 200, msg |-> "ok", id |-> r.id, nome |-> r.nome, email |-> r.email,
     foto |-> Coalesce(r.foto_url), tut |-> r.tutorial_visto,
     why |-> "busca", row |-> r.id]

BuscarUsuarioPorEmailHandler(p, query, dbOk) ==
    /\ pc[p] = "idle"
    /\ LET email == TrimSpace(query)
       IN  IF email = Vazio
           THEN Reply(p, Resp(400, "E-mail não informado", "validation"))
           ELSE \/ /\ ~dbOk
                   /\ Reply(p, Resp(500, "Erro ao buscar usuário", "busca_failed"))
                \/ /\ dbOk
                   /\ EmailCI(email) = {}
                   /\ Reply(p, Resp(404, "Usuário não encontrado", "busca_norow"))
                \/ \E r \in EmailCI(email) :
                      /\ dbOk
                      /\ Reply(p, BuscarResposta(r))
    /\ UNCHANGED <<usuarios, nextId, colGoogleSub, repoVars, req, u, histVars>>

(***************************************************************************)
(* PUT /api/usuario/{id}/tutorial                                          *)
(***************************************************************************)
\* UPDATE usuarios SET tutorial_visto=$1 WHERE id=$2
TutorialUpdate(id, val) ==
    {IF r.id = id THEN [r EXCEPT !.tutorial_visto = val] ELSE r : r \in usuarios}

TutorialValSemDefault(body) == IF body = << >> THEN FALSE ELSE body[1]

\* val := true; if body.TutorialVisto != nil { val = *body.TutorialVisto }
TutorialVal(body) == IF body = << >> THEN TRUE ELSE body[1]

MarcarTutorialVistoHandler(p, id, body, dbOk) ==
    /\ pc[p] = "idle"
    /\ IF ~dbOk
       THEN /\ Reply(p, Resp(500, "Erro ao atualizar", "storage"))
            /\ UNCHANGED usuarios
       ELSE IF id \notin Ids
       THEN /\ Reply(p, Resp(404, "Usuário não encontrado", "norow"))
            /\ UNCHANGED usuarios
       ELSE /\ usuarios' = TutorialUpdate(id, TutorialVal(body))
            /\ Reply(p, [Resp(204, "", "tutorial") EXCEPT !.row = id])
    /\ UNCHANGED <<nextId, colGoogleSub, repoVars, req, u, histVars>>

(***************************************************************************)
(* GET /api/anos: identity from the X-User-Email header                    *)
(***************************************************************************)
UsuarioIDSemTrim(hdr, dbOk) ==
    IF hdr = Vazio THEN [id |-> 0, err |-> "ErrNoRows"]
    ELSE IF ~dbOk THEN [id |-> 0, err |-> "db"]
    ELSE IF EmailCIExato(hdr) = {} THEN [id |-> 0, err |-> "ErrNoRows"]
    ELSE [id |-> (CHOOSE r \in EmailCIExato(hdr) : TRUE).id, err |-> "nil"]

\* SELECT id FROM usuarios WHERE email=$1 with the trimmed header value
UsuarioIDFromHeader(hdr, dbOk) ==
    LET email == TrimSpace(hdr)
    IN  IF email = Vazio THEN [id |-> 0, err |-> "ErrNoRows"]
        ELSE IF ~dbOk THEN [id |-> 0, err |-> "db"]
        ELSE IF EmailCIExato(email) = {} THEN [id |-> 0, err |-> "ErrNoRows"]
        ELSE [id |-> (CHOOSE r \in EmailCIExato(email) : TRUE).id, err |-> "nil"]

\* row: the usuario_id the listing query ran with (0: it did not run)
ListarAnosHandler(p, hdr, dbOk, listOk) ==
    /\ pc[p] = "idle"
    /\ LET res == UsuarioIDFromHeader(hdr, dbOk)
       IN  IF res.err # "nil"
           THEN Reply(p, Resp(401, "Usuário não autenticado",
                              IF res.err = "db" THEN "header_failed" ELSE "header_unauth"))
           ELSE IF ~listOk
           THEN Reply(p, [Resp(500, "Erro ao listar anos", "anos_failed") EXCEPT !.row = res.id])
           ELSE Reply(p, [Resp(200, "ok", "anos") EXCEPT !.row = res.id])
    /\ UNCHANGED <<usuarios, nextId, colGoogleSub, repoVars, req, u, histVars>>

(***************************************************************************)
(* POST /login/google: AuthGoogleHandler.LoginGoogle, then                 *)
(* SQLUserRepo.UpsertFromGoogle step by step                               *)
(***************************************************************************)
UpsertFailed == Resp(500, "Falha ao autenticar com Google", "upsert")

\* the handler's answer to a *User returned by UpsertFromGoogle
GoogleOk(usr, why) ==
    [status |-> 200, msg |-> "ok", id |-> usr.id, nome |-> usr.nome,
     email |-> usr.email, foto |-> Vazio, tut |-> FALSE, why |-> why,
     row |-> usr.id]

Scan(r) == [id |-> r.id, nome |-> r.nome, email |-> r.email, foto |-> Coalesce(r.foto_url)]

ClaimsMissingSoEmail(email, sub) == email = Vazio

\* if email == "" || sub == ""
ClaimsMissing(email, sub) == email = Vazio \/ sub = Vazio

NomeSemFallback(name, email) == name

\* if name == "" { name = email }
NomeOuEmail(name, email) == IF name = Vazio THEN email ELSE name

\* tokenOk: the verdict of idtoken.Validate; then the claims are extracted
\* and checked
LoginGoogle(p, tokenOk, name, email, sub, picture) ==
    /\ pc[p] = "idle"
    /\ IF ~tokenOk
       THEN /\ Reply(p, Resp(401, "ID Token inválido para este CLIENT_ID", "token"))
            /\ UNCHANGED req
       ELSE IF ClaimsMissing(email, sub)
       THEN /\ Reply(p, Resp(401, "Claims obrigatórias ausentes no token", "claims"))
            /\ UNCHANGED req
       ELSE /\ req' = [req EXCEPT ![p] =
                         [NoReq EXCEPT !.op = "google",
                                       !.nome = NomeOuEmail(name, email),
                                       !.email = email, !.sub = sub, !.picture = picture,
                                       !.novo = (EmailCI(email) = {})]]
            /\ pc' = [pc EXCEPT ![p] = "ensure"]
            /\ UNCHANGED resp
    /\ UNCHANGED <<usuarios, nextId, colGoogleSub, repoVars, u, histVars>>

\* ensureSchema: if r.schemaChecked { return }
EnsureSchema(p) ==
    /\ pc[p] = "ensure"
    /\ pc' = [pc EXCEPT ![p] = IF schemaChecked THEN "by_sub" ELSE "check_sub"]
    /\ UNCHANGED <<usuarios, nextId, colGoogleSub, repoVars, req, u, resp, histVars>>

\* r.hasGoogleSub = check("google_sub"); a failed metadata query reads as absent
CheckGoogleSub(p, queryOk) ==
    /\ pc[p] = "check_sub"
    /\ hasGoogleSub' = (queryOk /\ colGoogleSub)
    /\ pc' = [pc EXCEPT ![p] = "check_foto"]
    /\ UNCHANGED <<usuarios, nextId, colGoogleSub, schemaChecked, hasFotoURL,
                   req, u, resp, histVars>>

\* r.hasFotoURL = check("foto_url"); the column exists in the deployed table
CheckFotoURL(p, queryOk) ==
    /\ pc[p] = "check_foto"
    /\ hasFotoURL' = queryOk
    /\ pc' = [pc EXCEPT ![p] = "mark"]
    /\ UNCHANGED <<usuarios, nextId, colGoogleSub, schemaChecked, hasGoogleSub,
                   req, u, resp, histVars>>

\* r.schemaChecked = true
MarkChecked(p) ==
    /\ pc[p] = "mark"
    /\ schemaChecked' = TRUE
    /\ pc' = [pc EXCEPT ![p] = "by_sub"]
    /\ UNCHANGED <<usuarios, nextId, colGoogleSub, hasGoogleSub, hasFotoURL,
                   req, u, resp, histVars>>

\* 1) SELECT ... WHERE google_sub = $1
UpsertBySub(p, dbOk) ==
    /\ pc[p] = "by_sub"
    /\ IF hasGoogleSub /\ req[p].sub # Vazio
       THEN \/ /\ ~dbOk
               /\ Reply(p, UpsertFailed)
            \/ \E r \in BySub(req[p].sub) :
                  /\ dbOk
                  /\ Reply(p, GoogleOk(Scan(r), "by_sub"))
            \/ /\ dbOk
               /\ BySub(req[p].sub) = {}
               /\ pc' = [pc EXCEPT ![p] = "by_email"]
               /\ UNCHANGED resp
       ELSE /\ dbOk
            /\ pc' = [pc EXCEPT ![p] = "by_email"]
            /\ UNCHANGED resp
    /\ UNCHANGED <<usuarios, nextId, colGoogleSub, repoVars, req, u, histVars>>

\* 2) SELECT ... WHERE LOWER(email) = LOWER($1)
UpsertByEmail(p, dbOk) ==
    /\ pc[p] = "by_email"
    /\ \/ /\ ~dbOk
          /\ Reply(p, UpsertFailed)
          /\ UNCHANGED u
       \/ \E r \in EmailCI(req[p].email) :
             /\ dbOk
             /\ u' = [u EXCEPT ![p] = Scan(r)]
             /\ pc' = [pc EXCEPT ![p] = "link"]
             /\ UNCHANGED resp
       \/ /\ dbOk
          /\ EmailCI(req[p].email) = {}
          /\ pc' = [pc EXCEPT ![p] = "insert"]
          /\ UNCHANGED <<u, resp>>
    /\ UNCHANGED <<usuarios, nextId, colGoogleSub, repoVars, req, histVars>>

LinkSubSemWhere(id, sub) == {[r EXCEPT !.google_sub = sub] : r \in usuarios}

\* UPDATE usuarios SET google_sub = $1 WHERE id = $2
LinkSub(id, sub) ==
    {IF r.id = id THEN [r EXCEPT !.google_sub = sub] ELSE r : r \in usuarios}

UpsertLink(p, dbOk) ==
    /\ pc[p] = "link"
    /\ IF hasGoogleSub /\ req[p].sub # Vazio
       THEN IF ~dbOk
            THEN /\ Reply(p, UpsertFailed)
                 /\ UNCHANGED <<usuarios, vinculos>>
            ELSE /\ usuarios' = LinkSub(u[p].id, req[p].sub)
                 /\ vinculos' = vinculos \cup {<<req[p].sub, u[p].id>>}
                 /\ pc' = [pc EXCEPT ![p] = "foto"]
                 /\ UNCHANGED resp
       ELSE /\ dbOk
            /\ pc' = [pc EXCEPT ![p] = "foto"]
            /\ UNCHANGED <<usuarios, resp, vinculos>>
    /\ UNCHANGED <<nextId, colGoogleSub, repoVars, req, u, criadoPor, senhaViaPerfil>>

SetFotoSemWhere(id, picture) == {[r EXCEPT !.foto_url = picture] : r \in usuarios}

\* UPDATE usuarios SET foto_url = $1 WHERE id = $2
SetFoto(id, picture) ==
    {IF r.id = id THEN [r EXCEPT !.foto_url = picture] ELSE r : r \in usuarios}

FotoMudouSemVazio(p) == hasFotoURL /\ req[p].picture # u[p].foto

\* if r.hasFotoURL && picture != "" && picture != u.FotoURL
FotoMudou(p) == hasFotoURL /\ req[p].picture # Vazio /\ req[p].picture # u[p].foto

UpsertFotoIgnoraErro(p, dbOk) ==
    /\ pc[p] = "foto"
    /\ IF FotoMudou(p)
       THEN IF ~dbOk
            THEN /\ Reply(p, GoogleOk(u[p], "by_email"))
                 /\ UNCHANGED <<usuarios, u>>
            ELSE /\ usuarios' = SetFoto(u[p].id, req[p].picture)
                 /\ u' = [u EXCEPT ![p].foto = req[p].picture]
                 /\ Reply(p, GoogleOk(u'[p], "by_email"))
       ELSE /\ dbOk
            /\ Reply(p, GoogleOk(u[p], "by_email"))
            /\ UNCHANGED <<usuarios, u>>
    /\ UNCHANGED <<nextId, colGoogleSub, repoVars, req, histVars>>

\* the UPDATE of foto_url, then u.FotoURL = picture; return u, nil
UpsertFoto(p, dbOk) ==
    /\ pc[p] = "foto"
    /\ IF FotoMudou(p)
       THEN IF ~dbOk
            THEN /\ Reply(p, UpsertFailed)
                 /\ UNCHANGED <<usuarios, u>>
            ELSE /\ usuarios' = SetFoto(u[p].id, req[p].picture)
                 /\ u' = [u EXCEPT ![p].foto = req[p].picture]
                 /\ Reply(p, GoogleOk(u'[p], "by_email"))
       ELSE /\ dbOk
            /\ Reply(p, GoogleOk(u[p], "by_email"))
            /\ UNCHANGED <<usuarios, u>>
    /\ UNCHANGED <<nextId, colGoogleSub, repoVars, req, histVars>>

InsertGoogleRowSempreSub(id, r) ==
    NewRow(id, r.nome, r.email, Vazio, r.sub, IF hasFotoURL THEN r.picture ELSE Null)

InsertGoogleRowComSenha(id, r) ==
    NewRow(id, r.nome, r.email, GenerateFromPassword(pw1),
           IF hasGoogleSub THEN r.sub ELSE Null,
           IF hasFotoURL THEN r.picture ELSE Null)

\* 3) INSERT INTO usuarios (nome, email, senha_hash [, google_sub] [, foto_url])
\*    VALUES (..., '', ...) RETURNING id, nome, email, foto
InsertGoogleRow(id, r) ==
    NewRow(id, r.nome, r.email, Vazio,
           IF hasGoogleSub THEN r.sub ELSE Null,
           IF hasFotoURL THEN r.picture ELSE Null)

UpsertInsert(p, dbOk) ==
    /\ pc[p] = "insert"
    /\ \/ /\ ~dbOk
          /\ Reply(p, UpsertFailed)
          /\ UNCHANGED <<usuarios, nextId, histVars>>
       \/ /\ dbOk
          /\ nextId <= MaxId
          /\ nextId' = nextId + 1
          /\ IF UniqueViolation(req[p].email)
             THEN /\ Reply(p, [UpsertFailed EXCEPT !.why = "unique"])
                  /\ UNCHANGED <<usuarios, histVars>>
             ELSE /\ usuarios' = usuarios \cup {InsertGoogleRow(nextId, req[p])}
                  /\ criadoPor' = criadoPor @@ (nextId :> "google")
                  /\ vinculos' = IF hasGoogleSub
                                 THEN vinculos \cup {<<req[p].sub, nextId>>}
                                 ELSE vinculos
                  /\ UNCHANGED senhaViaPerfil
                  /\ Reply(p, GoogleOk(Scan(InsertGoogleRow(nextId, req[p])), "inserted"))
    /\ UNCHANGED <<colGoogleSub, repoVars, req, u>>

Finish(p) ==
    /\ pc[p] = "done"
    /\ pc' = [pc EXCEPT ![p] = "idle"]
    /\ req' = [req EXCEPT ![p] = NoReq]
    /\ resp' = [resp EXCEPT ![p] = NoResp]
    /\ u' = [u EXCEPT ![p] = NoUser]
    /\ UNCHANGED <<usuarios, nextId, colGoogleSub, repoVars, histVars>>

\* two concurrent handlers; registration, login and federated login against
\* a storage that answers every statement
Next ==
    \/ \E p \in Procs, n \in RegNomes, e \in RegEmails, s \in RegSenhas :
          RegisterStart(p, n, e, s)
    \/ \E p \in Procs : RegisterCheck(p, TRUE)
    \/ \E p \in Procs : RegisterInsert(p, TRUE)
    \/ \E p \in Procs, e \in LoginEmails, s \in LoginSenhas :
          LoginHandler(p, e, s, TRUE)
    \/ \E p \in Procs, ok \in BOOLEAN, n \in ClaimNames, e \in ClaimEmails,
          s \in ClaimSubsUm, f \in ClaimPictures : LoginGoogle(p, ok, n, e, s, f)
    \/ \E p \in Procs : EnsureSchema(p)
    \/ \E p \in Procs : CheckGoogleSub(p, TRUE)
    \/ \E p \in Procs : CheckFotoURL(p, TRUE)
    \/ \E p \in Procs : MarkChecked(p)
    \/ \E p \in Procs : UpsertBySub(p, TRUE)
    \/ \E p \in Procs : UpsertByEmail(p, TRUE)
    \/ \E p \in Procs : UpsertLink(p, TRUE)
    \/ \E p \in Procs : UpsertFoto(p, TRUE)
    \/ \E p \in Procs : UpsertInsert(p, TRUE)
    \/ \E p \in Procs : Finish(p)

Spec == Init /\ [][Next]_vars

\* one handler at a time; registration, login, profile update, user lookup,
\* tutorial flag and federated login against a storage that may fail
NextSeq ==
    \E p \in {"h1"} :
        \/ \E n \in RegNomes, e \in RegEmails, s \in RegSenhas : RegisterStart(p, n, e, s)
        \/ \E ok \in BOOLEAN : RegisterCheck(p, ok)
        \/ \E ok \in BOOLEAN : RegisterInsert(p, ok)
        \/ \E e \in LoginEmails, s \in LoginSenhas, ok \in BOOLEAN :
              LoginHandler(p, e, s, ok)
        \/ \E h \in PerfilEmails, n \in PerfilNomes, f \in PerfilFotos,
              s \in PerfilSenhas, ok \in BOOLEAN :
              AtualizarPerfilHandler(p, h, n, Vazio, f, s, ok)
        \/ \E e \in BuscaEmails, ok \in BOOLEAN : BuscarUsuarioPorEmailHandler(p, e, ok)
        \/ \E id \in 1..MaxId, b \in TutorialPresente, ok \in BOOLEAN :
              MarcarTutorialVistoHandler(p, id, b, ok)
        \/ \E ok \in BOOLEAN, n \in ClaimNames, e \in ClaimEmails,
              s \in ClaimSubs, f \in ClaimPicturesSeq : LoginGoogle(p, ok, n, e, s, f)
        \/ EnsureSchema(p)
        \/ \E q \in BOOLEAN : CheckGoogleSub(p, q)
        \/ \E q \in BOOLEAN : CheckFotoURL(p, q)
        \/ MarkChecked(p)
        \/ \E ok \in BOOLEAN : UpsertBySub(p, ok)
        \/ \E ok \in BOOLEAN : UpsertByEmail(p, ok)
        \/ \E ok \in BOOLEAN : UpsertLink(p, ok)
        \/ \E ok \in BOOLEAN : UpsertFoto(p, ok)
        \/ \E ok \in BOOLEAN : UpsertInsert(p, ok)
        \/ Finish(p)

SpecSeq == Init /\ [][NextSeq]_vars

\* one handler at a time; registration, password login, a header-identified
\* listing and federated login against a storage whose statements and
\* metadata queries may fail
NextFed ==
    \E p \in {"h1"} :
        \/ \E n \in RegNomes, e \in RegEmails, s \in RegSenhas : RegisterStart(p, n, e, s)
        \/ \E ok \in BOOLEAN : RegisterCheck(p, ok)
        \/ \E ok \in BOOLEAN : RegisterInsert(p, ok)
        \/ \E e \in LoginEmails, s \in LoginSenhas, ok \in BOOLEAN :
              LoginHandler(p, e, s, ok)
        \/ \E h \in HeaderEmails, ok \in BOOLEAN, l \in BOOLEAN :
              ListarAnosHandler(p, h, ok, l)
        \/ \E ok \in BOOLEAN, n \in ClaimNames, e \in ClaimEmails,
              s \in ClaimSubs, f \in ClaimPicturesSeq : LoginGoogle(p, ok, n, e, s, f)
        \/ EnsureSchema(p)
        \/ \E q \in BOOLEAN : CheckGoogleSub(p, q)
        \/ \E q \in BOOLEAN : CheckFotoURL(p, q)
        \/ MarkChecked(p)
        \/ \E ok \in BOOLEAN : UpsertBySub(p, ok)
        \/ \E ok \in BOOLEAN : UpsertByEmail(p, ok)
        \/ \E ok \in BOOLEAN : UpsertLink(p, ok)
        \/ \E ok \in BOOLEAN : UpsertFoto(p, ok)
        \/ \E ok \in BOOLEAN : UpsertInsert(p, ok)
        \/ Finish(p)

SpecFed == Init /\ [][NextFed]_vars

\* one handler at a time; the federated login alone, with and without a name
\* claim, against a storage whose statements and metadata queries may fail
NextGoogle ==
    \E p \in {"h1"} :
        \/ \E ok \in BOOLEAN, n \in ClaimNamesFed, e \in ClaimEmails,
              s \in ClaimSubs, f \in ClaimPicturesSeq : LoginGoogle(p, ok, n, e, s, f)
        \/ EnsureSchema(p)
        \/ \E q \in BOOLEAN : CheckGoogleSub(p, q)
        \/ \E q \in BOOLEAN : CheckFotoURL(p, q)
        \/ MarkChecked(p)
        \/ \E ok \in BOOLEAN : UpsertBySub(p, ok)
        \/ \E ok \in BOOLEAN : UpsertByEmail(p, ok)
        \/ \E ok \in BOOLEAN : UpsertLink(p, ok)
        \/ \E ok \in BOOLEAN : UpsertFoto(p, ok)
        \/ \E ok \in BOOLEAN : UpsertInsert(p, ok)
        \/ Finish(p)

SpecGoogle == Init /\ [][NextGoogle]_vars

\* two concurrent handlers of the federated login, against a storage that
\* answers every statement but whose metadata queries may fail
NextDetect ==
    \E p \in Procs :
        \/ \E ok \in BOOLEAN, n \in ClaimNames, e \in ClaimEmails,
              s \in ClaimSubsUm, f \in ClaimPictures : LoginGoogle(p, ok, n, e, s, f)
        \/ EnsureSchema(p)
        \/ \E q \in BOOLEAN : CheckGoogleSub(p, q)
        \/ \E q \in BOOLEAN : CheckFotoURL(p, q)
        \/ MarkChecked(p)
        \/ UpsertBySub(p, TRUE)
        \/ UpsertByEmail(p, TRUE)
        \/ UpsertLink(p, TRUE)
        \/ UpsertFoto(p, TRUE)
        \/ UpsertInsert(p, TRUE)
        \/ Finish(p)

SpecDetect == Init /\ [][NextDetect]_vars

\* no request of another client is in progress
Vez(p) == \A q \in Procs \ {p} : pc[q] \in {"idle", "done"}

\* two clients, one request in progress at a time (the answer to a client's
\* last request stays until its next one); registration and federated login
\* against a storage whose UPDATE statements may fail
NextRetry ==
    \/ \E p \in Procs, n \in RegNomes, e \in RegEmails, s \in RegSenhas :
          Vez(p) /\ RegisterStart(p, n, e, s)
    \/ \E p \in Procs : RegisterCheck(p, TRUE)
    \/ \E p \in Procs : RegisterInsert(p, TRUE)
    \/ \E p \in Procs, ok \in BOOLEAN, n \in ClaimNames, e \in ClaimEmails,
          s \in ClaimSubsUm, f \in ClaimPicturesSeq :
          Vez(p) /\ LoginGoogle(p, ok, n, e, s, f)
    \/ \E p \in Procs : EnsureSchema(p)
    \/ \E p \in Procs : CheckGoogleSub(p, TRUE)
    \/ \E p \in Procs : CheckFotoURL(p, TRUE)
    \/ \E p \in Procs : MarkChecked(p)
    \/ \E p \in Procs : UpsertBySub(p, TRUE)
    \/ \E p \in Procs : UpsertByEmail(p, TRUE)
    \/ \E p \in Procs, ok \in BOOLEAN : UpsertLink(p, ok)
    \/ \E p \in Procs, ok \in BOOLEAN : UpsertFoto(p, ok)
    \/ \E p \in Procs : UpsertInsert(p, TRUE)
    \/ \E p \in Procs : Finish(p)

SpecRetry == Init /\ [][NextRetry]_vars

\* one handler at a time; registration, password login, profile update
\* (passwords of six and of eight characters) and tutorial flag (with and
\* without a body) against a storage that answers
NextSenha ==
    \E p \in {"h1"} :
        \/ \E n \in RegNomes, e \in RegEmails, s \in RegSenhas : RegisterStart(p, n, e, s)
        \/ RegisterCheck(p, TRUE)
        \/ RegisterInsert(p, TRUE)
        \/ \E e \in LoginEmails, s \in LoginSenhas : LoginHandler(p, e, s, TRUE)
        \/ \E h \in PerfilEmails, n \in PerfilNomes, f \in PerfilFotos,
              s \in PerfilSenhasSeis :
              AtualizarPerfilHandler(p, h, n, Vazio, f, s, TRUE)
        \/ \E id \in 1..MaxId, b \in TutorialBodies :
              MarcarTutorialVistoHandler(p, id, b, TRUE)
        \/ Finish(p)

SpecSenha == Init /\ [][NextSenha]_vars

\* one handler at a time; every operation of the identity core against a
\* storage that answers
NextCore ==
    \E p \in {"h1"} :
        \/ \E n \in RegNomes, e \in RegEmails, s \in RegSenhas : RegisterStart(p, n, e, s)
        \/ RegisterCheck(p, TRUE)
        \/ RegisterInsert(p, TRUE)
        \/ \E e \in LoginEmails, s \in LoginSenhas : LoginHandler(p, e, s, TRUE)
        \/ \E h \in PerfilEmails, n \in PerfilNomes, f \in PerfilFotos,
              s \in PerfilSenhas :
              AtualizarPerfilHandler(p, h, n, Vazio, f, s, TRUE)
        \/ \E e \in BuscaEmails : BuscarUsuarioPorEmailHandler(p, e, TRUE)
        \/ \E h \in HeaderEmails, l \in BOOLEAN : ListarAnosHandler(p, h, TRUE, l)
        \/ \E id \in 1..MaxId, b \in TutorialBodies :
              MarcarTutorialVistoHandler(p, id, b, TRUE)
        \/ \E ok \in BOOLEAN, n \in ClaimNames, e \in ClaimEmails,
              s \in ClaimSubsUm, f \in ClaimPictures : LoginGoogle(p, ok, n, e, s, f)
        \/ EnsureSchema(p)
        \/ CheckGoogleSub(p, TRUE)
        \/ CheckFotoURL(p, TRUE)
        \/ MarkChecked(p)
        \/ UpsertBySub(p, TRUE)
        \/ UpsertByEmail(p, TRUE)
        \/ UpsertLink(p, TRUE)
        \/ UpsertFoto(p, TRUE)
        \/ UpsertInsert(p, TRUE)
        \/ Finish(p)

SpecCore == Init /\ [][NextCore]_vars

(***************************************************************************)
(* Properties                                                              *)
(***************************************************************************)
RegisterDone(p) == pc[p] = "done" /\ req[p].op = "register"
GoogleDone(p)   == pc[p] = "done" /\ req[p].op = "google"
\* a registration that got past the existence pre-check
PassedPreCheck(p) ==
    RegisterDone(p) /\ resp[p].why \in {"inserted", "unique", "insert_failed"}

\* C1: in every reachable state no two stored accounts have emails that are
\* equal ignoring letter case, under any interleaving of registrations and
\* federated resolutions, storage enforcing the exact-match UNIQUE(email).
C1_NoCaseInsensitiveDuplicate ==
    \A r1, r2 \in usuarios : ToLower(r1.email) = ToLower(r2.email) => r1 = r2

\* two finished federated resolutions of one email that no account held when
\* either began, whose subject ids no account of another email carries
MesmoEmailNovo(p, q) ==
    /\ p # q
    /\ GoogleDone(p) /\ GoogleDone(q)
    /\ req[p].email = req[q].email
    /\ req[p].novo /\ req[q].novo
    /\ \A r \in usuarios :
          r.google_sub \in {req[p].sub, req[q].sub}
              => ToLower(r.email) = ToLower(req[p].email)

\* C2: two concurrent federated resolutions of the same email, both begun
\* when no account held that email and with subject ids that no account of
\* another email carries, leave exactly one stored account for the email;
\* each caller is answered with that account or with the federation-upsert
\* failure, and no answer names an id that is not stored under that email.
C2_ConcurrentFederatedSignup ==
    \A p, q \in Procs :
        MesmoEmailNovo(p, q)
        => LET contas == EmailCI(req[p].email)
           IN  /\ Cardinality(contas) = 1
               /\ \A x \in {p, q} :
                     IF resp[x].status = 200
                     THEN \E r \in contas : r.id = resp[x].id /\ r.email = resp[x].email
                     ELSE Observable(resp[x]) = Observable(UpsertFailed)

\* C2 witness: both resolutions missed the email lookup, one inserted the
\* account and the other lost on the uniqueness constraint
C2_Witness ==
    \E p, q \in Procs :
        /\ MesmoEmailNovo(p, q)
        /\ resp[p].why = "inserted" /\ resp[q].why = "unique"

\* C3: when two concurrent registrations of the same email both pass the
\* existence pre-check, one is answered 201 and the other with the
\* duplicate-email conflict 409 (never a server error), and exactly one
\* account is stored with the email, the one the 201 answers for.
C3_RacingRegistrations ==
    \A p, q \in Procs :
        (p # q /\ PassedPreCheck(p) /\ PassedPreCheck(q) /\ req[p].email = req[q].email)
        => /\ {resp[p].status, resp[q].status} = {201, 409}
           /\ \A x \in {p, q} :
                 resp[x].status = 409 => resp[x].msg = "E-mail já cadastrado"
           /\ Cardinality({r \in usuarios : r.email = req[p].email}) = 1
           /\ \A x \in {p, q} :
                 resp[x].status = 201
                 => \E r \in usuarios : r.id = resp[x].row /\ r.email = req[x].email

C3_Witness ==
    \E p, q \in Procs :
        /\ p # q /\ PassedPreCheck(p) /\ PassedPreCheck(q)
        /\ req[p].email = req[q].email
        /\ resp[p].why = "inserted" /\ resp[q].why = "unique"

\* the branches in which LoginHandler answers past its input validation
LoginWhys == {"login_norow", "login_mismatch", "login_match", "login_failed"}

\* the stored accounts that a registration with (email, senha) created and
\* whose credential is still the registered one
RegisteredWith(email, senha) ==
    {r \in usuarios : /\ criadoPor[r.id] = "register"
                      /\ r.email = SanitizeEmail(email)
                      /\ r.senha_hash = GenerateFromPassword(senha)}

\* C4: a login with the email and password of a successful registration
\* (valid name, email and password) succeeds and returns the id of the
\* account that registration created.
C4_RegisterThenLogin ==
    [][\A p \in Procs :
          (pc[p] = "idle" /\ pc'[p] = "done" /\ resp'[p].why \in LoginWhys)
          => \A e \in LoginEmails, s \in LoginSenhas :
                (RegisteredWith(e, s) # {} /\ LoginHandler(p, e, s, TRUE))
                => \E r \in RegisteredWith(e, s) :
                      resp'[p].status = 200 /\ resp'[p].id = r.id]_vars

\* C5: a login for an unregistered email and a login for a registered email
\* with a wrong password give the caller the same status, message and body.
C5_LoginIndistinguishable ==
    \A p, q \in Procs :
        (resp[p].why = "login_norow" /\ resp[q].why = "login_mismatch")
        => Observable(resp[p]) = Observable(resp[q])

C5_Witness ==
    \E p, q \in Procs : resp[p].why = "login_norow" /\ resp[q].why = "login_mismatch"

\* C6: once an account holds an email equal, ignoring case, to the email of
\* a registration, the registration's pre-check (its query answered by the
\* storage) answers the duplicate-email conflict 409 and the table is left
\* unchanged.
C6_CaseVariantRejected ==
    [][\A p \in Procs :
          ( /\ pc[p] = "reg_check" /\ pc'[p] # "reg_check"
            /\ resp'[p].why # "check_failed"
            /\ EmailCI(req[p].email) # {} )
          => /\ pc'[p] = "done"
             /\ resp'[p].status = 409
             /\ resp'[p].msg = "E-mail já cadastrado"
             /\ usuarios' = usuarios]_vars

\* C6 witness: a registration rejected although no stored email equals its
\* email exactly
C6_Witness ==
    \E p \in Procs :
        /\ RegisterDone(p) /\ resp[p].why = "precheck"
        /\ EmailCI(req[p].email) # {}
        /\ EmailCIExato(req[p].email) = {}

\* C7: when a federated resolution looks up an email that a registered
\* account holds (ignoring case), its subject id being unlinked and the
\* lookup answered by the storage, the store holds exactly one account for
\* that email and the resolution continues with (and returns) the registered
\* account.
C7_FederatedClaimsRegistered ==
    [][\A p \in Procs :
          ( /\ pc[p] = "by_email" /\ pc'[p] # "by_email"
            /\ resp'[p].why # "upsert"
            /\ \E r \in EmailCI(req[p].email) : criadoPor[r.id] = "register" )
          => /\ pc'[p] = "link"
             /\ Cardinality(EmailCI(req[p].email)) = 1
             /\ criadoPor[u'[p].id] = "register"]_vars

\* C8: a login whose lookup scans an account with the empty credential is
\* answered with the invalid-credentials outcome (the answer of an
\* unregistered email), whatever password was submitted.
C8_EmptyCredentialNeverMatches ==
    [][\A p \in Procs :
          ( /\ pc[p] = "idle" /\ pc'[p] = "done"
            /\ resp'[p].why \in {"login_match", "login_mismatch"}
            /\ RowById(resp'[p].row).senha_hash = Vazio )
          => Observable(resp'[p]) = Observable(LoginNoRow)]_vars

C8_Witness ==
    \E p \in Procs :
        /\ pc[p] = "done" /\ resp[p].why = "login_mismatch"
        /\ RowById(resp[p].row).senha_hash = Vazio

\* C9: an account created by federated resolution has the empty credential
\* until a profile update with a password is applied to it: no other
\* operation changes a credential from empty, and a password login answers
\* with such an account only after that profile update.
C9_FederatedPasswordOnlyViaProfile ==
    [][ /\ \A r \in usuarios, r2 \in usuarios' :
              (r2.id = r.id /\ r.senha_hash = Vazio /\ r2.senha_hash # Vazio)
              => /\ \E p \in Procs : pc[p] = "idle" /\ resp'[p].why = "perfil_senha"
                 /\ r.id \in senhaViaPerfil'
        /\ \A r \in usuarios' :
              (criadoPor'[r.id] = "google" /\ r.id \notin senhaViaPerfil')
              => r.senha_hash = Vazio
        /\ \A p \in Procs :
              (resp'[p].why = "login_match" /\ criadoPor'[resp'[p].id] = "google")
              => resp'[p].id \in senhaViaPerfil' ]_vars

C9_Witness ==
    \E p \in Procs :
        /\ pc[p] = "done" /\ resp[p].why = "login_match"
        /\ criadoPor[resp[p].id] = "google"

\* C10: at most one account holds a given federated subject id, and a
\* subject id once linked to an account is never linked to another one.
C10_SubjectNeverReassigned ==
    /\ \A r1, r2 \in usuarios :
          (r1.google_sub # Null /\ r1.google_sub = r2.google_sub) => r1 = r2
    /\ \A a, b \in vinculos : a[1] = b[1] => a[2] = b[2]

\* the string fields of a response body
Body(r) == {r.nome, r.email, r.foto}
\* a bcrypt hash, the form of every stored non-empty credential
IsHash(f) == Len(f) >= 1 /\ f[1] = "$2a$"

\* C11: no response of login, federated login, user lookup by email or
\* profile update carries the stored password credential of any account:
\* every non-empty stored credential is a hash and no field of any response
\* body is one.
C11_NoCredentialInResponse ==
    /\ \A r \in usuarios : r.senha_hash = Vazio \/ IsHash(r.senha_hash)
    /\ \A p \in Procs :
          /\ \A f \in Body(resp[p]) : ~IsHash(f)
          /\ \A r \in usuarios : r.senha_hash # Vazio => r.senha_hash \notin Body(resp[p])

\* C11 witness: a user lookup answered with an account that holds a credential
C11_Witness ==
    \E p \in Procs :
        /\ pc[p] = "done" /\ resp[p].why = "busca"
        /\ RowById(resp[p].row).senha_hash # Vazio

\* the handlers that are inside the metadata detection of ensureSchema
Detecting == {p \in Procs : pc[p] \in {"check_sub", "check_foto", "mark"}}

\* C12: the metadata detection runs once per repository instance: no two
\* handlers are inside it at the same time and none is inside it once the
\* result is cached, so that every caller proceeds with the one cached result.
C12_SingleDetection ==
    /\ Cardinality(Detecting) <= 1
    /\ schemaChecked => Detecting = {}

\* the cached result says google_sub is absent although the table has it:
\* the metadata query for it failed
SubProbeFailed == schemaChecked /\ colGoogleSub /\ ~hasGoogleSub
\* the table always has foto_url: a cached absence is a failed metadata query
FotoProbeFailed == schemaChecked /\ ~hasFotoURL

\* C13: a failed metadata query never ends the request: the detection
\* completes, caches the capability as absent, and the resolution goes on
\* with the statements of the absent-column case (no lookup by subject, no
\* subject link, no avatar update, an INSERT without the column).
C13_ProbeFailureMeansAbsent ==
    [][\A p \in Procs :
          /\ CheckGoogleSub(p, FALSE) => (~hasGoogleSub' /\ pc'[p] = "check_foto")
          /\ CheckFotoURL(p, FALSE) => (~hasFotoURL' /\ pc'[p] = "mark")
          /\ pc[p] \in {"check_sub", "check_foto", "mark"} => pc'[p] # "done"
          /\ (SubProbeFailed /\ pc[p] = "by_sub" /\ pc'[p] # "by_sub")
             => pc'[p] = "by_email"
          /\ (SubProbeFailed /\ pc[p] = "link" /\ pc'[p] # "link")
             => (pc'[p] = "foto" /\ usuarios' = usuarios)
          /\ (FotoProbeFailed /\ pc[p] = "foto" /\ pc'[p] # "foto")
             => (resp'[p].status = 200 /\ usuarios' = usuarios)
          /\ (pc[p] = "insert" /\ resp'[p].why = "inserted")
             => \E r \in usuarios' :
                   /\ r.id = resp'[p].id
                   /\ SubProbeFailed => r.google_sub = Null
                   /\ FotoProbeFailed => r.foto_url = Null]_vars

\* C13 witness: an account inserted without google_sub after the metadata
\* query for that column failed
C13_Witness ==
    \E p \in Procs :
        /\ GoogleDone(p) /\ resp[p].why = "inserted"
        /\ SubProbeFailed
        /\ RowById(resp[p].id).google_sub = Null

\* the one answer of the federated login endpoint to a failed resolution:
\* no account, no cause
GenericFailure(r) ==
    /\ r.status = 500
    /\ r.msg = "Falha ao autenticar com Google"
    /\ r.id = 0 /\ r.nome = Vazio /\ r.email = Vazio /\ r.foto = Vazio

\* C14: a storage error at any step of the federated resolution (lookup by
\* subject, lookup by email, subject link, avatar update, insert, a rejected
\* INSERT included) ends the request at that step with the same generic
\* internal failure, which names no account.
C14_OpaqueUpsertFailure ==
    [][\A p \in Procs :
          /\ ( \/ UpsertBySub(p, FALSE)
               \/ UpsertByEmail(p, FALSE)
               \/ UpsertLink(p, FALSE)
               \/ UpsertFoto(p, FALSE)
               \/ UpsertInsert(p, FALSE) )
             => (pc'[p] = "done" /\ GenericFailure(resp'[p]))
          /\ (pc[p] = "insert" /\ pc'[p] = "done" /\ usuarios' = usuarios)
             => GenericFailure(resp'[p])]_vars

\* C14 witness: a resolution that failed after it had found the account by email
C14_Witness ==
    \E p \in Procs :
        /\ GoogleDone(p) /\ resp[p].why = "upsert"
        /\ u[p].id # 0
        /\ GenericFailure(resp[p])

\* C15: a federated login whose token fails validation is answered with the
\* token-invalid outcome, and one whose validated token lacks subject or
\* email with the claims-missing outcome; in both cases the request ends
\* there: no statement is sent to the store, the accounts and the schema
\* cache are unchanged.
C15_TokenAndClaimsRejected ==
    [][\A p \in Procs, ok \in BOOLEAN, n \in ClaimNames, e \in ClaimEmails,
          s \in ClaimSubs, f \in ClaimPicturesSeq :
          (LoginGoogle(p, ok, n, e, s, f) /\ (~ok \/ e = Vazio \/ s = Vazio))
          => /\ pc'[p] = "done"
             /\ resp'[p].status = 401
             /\ resp'[p].msg = IF ~ok THEN "ID Token inválido para este CLIENT_ID"
                               ELSE "Claims obrigatórias ausentes no token"
             /\ resp'[p].id = 0
             /\ usuarios' = usuarios
             /\ nextId' = nextId
             /\ repoVars' = repoVars]_vars

\* C15 witness: a token without subject or email rejected while accounts exist
C15_Witness ==
    \E p \in Procs :
        /\ pc[p] = "done" /\ resp[p].why = "claims"
        /\ usuarios # {}

\* C16: the header-based identity resolution (its query answered by the
\* storage) fails as unauthenticated when the supplied email is empty after
\* trimming or no account is stored with it, and otherwise yields the id of
\* the one account stored with that email; the listing runs only with a
\* resolved id.
C16_HeaderResolution ==
    [][\A p \in Procs, h \in HeaderEmails, l \in BOOLEAN :
          ListarAnosHandler(p, h, TRUE, l)
          => LET e == TrimSpace(h)
                 hits == {r \in usuarios : r.email = e}
             IN  IF e = Vazio \/ hits = {}
                 THEN /\ resp'[p].status = 401
                      /\ resp'[p].msg = "Usuário não autenticado"
                      /\ resp'[p].row = 0
                 ELSE /\ Cardinality(hits) = 1
                      /\ resp'[p].row \in {r.id : r \in hits}
                      /\ resp'[p].status # 401]_vars

\* C16 witness: a listing that ran for the account the header resolved to
C16_Witness ==
    \E p \in Procs :
        /\ pc[p] = "done" /\ resp[p].why = "anos"
        /\ resp[p].row \in Ids

\* the failed-storage branches of registration, login and header resolution
StorageWhys == {"check_failed", "insert_failed", "login_failed", "header_failed"}

\* C17: a storage error during registration, login or header-based identity
\* resolution is answered with a server-side failure (5xx), never with the
\* invalid-credentials, unauthenticated or duplicate-email outcome.
C17_StorageErrorDistinct ==
    \A p \in Procs :
        resp[p].why \in StorageWhys
        => /\ resp[p].status >= 500
           /\ <<resp[p].status, resp[p].msg>> \notin
                 { <<401, "E-mail ou senha incorretos">>,
                   <<401, "Usuário não autenticado">>,
                   <<409, "E-mail já cadastrado">> }

\* C18: every stored account email is in lowercase form.
C18_StoredEmailLowercase ==
    \A r \in usuarios : r.email = ToLower(r.email)

\* C19: the link step of the email-match branch changes a subject id only
\* when the column exists and the matched account's subject id is empty, and
\* then to the presented one; an account that carries a subject id keeps it.
C19_LinkOnlyWhenEmpty ==
    [][\A p \in Procs :
          (pc[p] = "link" /\ pc'[p] # "link")
          => \A r \in usuarios, r2 \in usuarios' :
                (r2.id = r.id /\ r2.google_sub # r.google_sub)
                => /\ hasGoogleSub
                   /\ r.id = u[p].id
                   /\ r.google_sub = Null
                   /\ r2.google_sub = req[p].sub]_vars

\* C20: when the subject column is known to exist and the presented subject
\* id is non-empty and carried by an account, the lookup by subject (answered
\* by the storage) ends the resolution: it returns that account as stored,
\* whatever the presented email, with no email lookup and no write.
C20_SubjectHitReturnsAtOnce ==
    [][\A p \in Procs :
          ( /\ pc[p] = "by_sub" /\ pc'[p] # "by_sub"
            /\ hasGoogleSub /\ req[p].sub # Vazio
            /\ \E r \in usuarios : r.google_sub = req[p].sub
            /\ resp'[p].why # "upsert" )
          => /\ pc'[p] = "done"
             /\ resp'[p].status = 200
             /\ \E r \in usuarios :
                   /\ r.google_sub = req[p].sub
                   /\ resp'[p].id = r.id
                   /\ resp'[p].email = r.email
                   /\ resp'[p].nome = r.nome
             /\ usuarios' = usuarios
             /\ nextId' = nextId]_vars

\* C20 witness: a resolution answered by the subject lookup with an account
\* whose stored email is not the presented one
C20_Witness ==
    \E p \in Procs :
        /\ GoogleDone(p) /\ resp[p].why = "by_sub"
        /\ ToLower(resp[p].email) # ToLower(req[p].email)

\* C21: when the avatar step of the email-match branch completes (its
\* statement answered by the storage), the stored avatar of the matched
\* account becomes the presented one exactly when the avatar capability is
\* on, the presented avatar is non-empty and it differs from the stored
\* value; otherwise no row changes; and the account returned carries the
\* avatar that is stored afterwards.
C21_AvatarRefresh ==
    [][\A p \in Procs :
          (pc[p] = "foto" /\ pc'[p] # "foto" /\ resp'[p].why # "upsert")
          => LET antes == RowById(u[p].id)
                 muda == /\ hasFotoURL
                         /\ req[p].picture # Vazio
                         /\ req[p].picture # Coalesce(antes.foto_url)
             IN  /\ usuarios' =
                       IF muda
                       THEN (usuarios \ {antes})
                                \cup {[antes EXCEPT !.foto_url = req[p].picture]}
                       ELSE usuarios
                 /\ \E r \in usuarios' :
                       r.id = u[p].id /\ u'[p].foto = Coalesce(r.foto_url)
                 /\ resp'[p].status = 200 /\ resp'[p].id = u[p].id]_vars

\* C21 witness: a resolution in the email-match branch that replaced a
\* stored avatar and returned the new one
C21_Witness ==
    \E p \in Procs :
        /\ GoogleDone(p) /\ resp[p].why = "by_email"
        /\ req[p].picture # Vazio
        /\ u[p].foto = req[p].picture
        /\ RowById(u[p].id).foto_url = req[p].picture

AfterEnsure == {"by_sub", "by_email", "link", "foto", "insert"}

\* C23: a resolution reads the capability flags only once a detection has
\* been published, and the published flags never change afterwards, so that
\* every step of one resolution reads the same completed detection result,
\* also while other resolutions run the detection and their metadata queries
\* fail.
C23_FlagsStableOncePublished ==
    [][ /\ \A p \in Procs : pc[p] \in AfterEnsure => schemaChecked
        /\ schemaChecked
           => (hasGoogleSub' = hasGoogleSub /\ hasFotoURL' = hasFotoURL) ]_vars

\* the last request of p was a federated resolution that found its account
\* by email, linked the subject id to it and then failed (at the avatar
\* update, the only statement after the link)
FailedAfterLink(p) ==
    /\ GoogleDone(p) /\ resp[p].why = "upsert"
    /\ u[p].id \in Ids
    /\ RowById(u[p].id).google_sub = req[p].sub

\* q is running the resolution that p's last request ran
SameResolution(p, q) ==
    /\ p # q
    /\ req[q].op = "google"
    /\ req[q].email = req[p].email
    /\ req[q].sub = req[p].sub
    /\ req[q].picture = req[p].picture

\* C24: after a resolution of the email-match branch has failed with the
\* subject id already linked, the same resolution submitted again and met by
\* no further storage error succeeds, returns the id of the account that was
\* linked, and leaves exactly one account for the email, carrying the
\* subject id.
C24_RetryAfterPartialLink ==
    [][\A p, q \in Procs :
          ( /\ FailedAfterLink(p) /\ SameResolution(p, q)
            /\ pc[q] # "done" /\ pc'[q] = "done"
            /\ resp'[q].why # "upsert" )
          => /\ resp'[q].status = 200
             /\ resp'[q].id = u[p].id
             /\ \E r \in usuarios' :
                   /\ {x \in usuarios' : ToLower(x.email) = ToLower(req[p].email)} = {r}
                   /\ r.id = u[p].id
                   /\ r.google_sub = req[p].sub]_vars

\* C24 witness: the avatar update of a resolution failed after its link, and
\* the same resolution submitted again was answered with the linked account
C24_Witness ==
    \E p, q \in Procs :
        /\ FailedAfterLink(p) /\ SameResolution(p, q)
        /\ FotoMudou(p)
        /\ pc[q] = "done" /\ resp[q].status = 200
        /\ resp[q].id = u[p].id

\* the accounts whose stored credential is the hash of senha, set by a
\* registration or a profile update that was answered with success
HoldsPassword(email, senha) ==
    {r \in EmailCI(email) : r.senha_hash = GenerateFromPassword(senha)}

\* C25: registration, login and profile update accept the same passwords:
\* a login with the email of an account and the password that a successful
\* registration or profile update stored for it passes the login validation
\* and succeeds.
C25_SamePasswordRule ==
    [][\A p \in Procs :
          (pc[p] = "idle" /\ pc'[p] = "done" /\ resp'[p].why \in LoginWhys \cup {"validation"})
          => \A e \in LoginEmails, s \in LoginSenhas :
                (HoldsPassword(SanitizeEmail(e), s) # {} /\ LoginHandler(p, e, s, TRUE))
                => resp'[p].status = 200]_vars

\* a password login or a federated login answered with an account
LoggedIn(p) ==
    /\ pc[p] = "done" /\ resp[p].status = 200
    /\ resp[p].why = "login_match" \/ GoogleDone(p)

\* C26: the email that a successful password login or federated login
\* returns, sent back as the caller email of the header-based identity
\* resolution (its query answered by the storage), resolves to the account
\* id that the login returned.
C26_LoginEmailResolvesToSameId ==
    \A p \in Procs :
        LoggedIn(p)
        => UsuarioIDFromHeader(resp[p].email, TRUE) = [id |-> resp[p].id, err |-> "nil"]

\* the ids that a password login with (email, senha) can be answered with
\* over the table us
LoginIds(us, email, senha) ==
    {r.id : r \in {x \in us : /\ ToLower(x.email) = ToLower(email)
                                /\ LoginAnswer(x, email, senha).status = 200}}

\* C27: the steps of the email-match branch (subject link, avatar update)
\* change nothing but the subject id and the avatar of the matched account:
\* no account is added or removed, every account keeps its id, name, email,
\* credential and tutorial flag, every other account is unchanged, and every
\* password login that would succeed before a step succeeds after it with
\* the same id.
C27_ClaimKeepsPasswordAccount ==
    [][\A p \in Procs :
          (pc[p] \in {"link", "foto"} /\ pc'[p] # pc[p])
          => /\ {r.id : r \in usuarios'} = Ids
             /\ Cardinality(usuarios') = Cardinality(usuarios)
             /\ \A r \in usuarios : \E r2 \in usuarios' :
                   /\ r2.id = r.id
                   /\ r2.nome = r.nome
                   /\ r2.email = r.email
                   /\ r2.senha_hash = r.senha_hash
                   /\ r2.tutorial_visto = r.tutorial_visto
                   /\ r.id # u[p].id => r2 = r
             /\ \A e \in LoginEmails, s \in LoginSenhas :
                   LoginIds(usuarios, e, s) \subseteq LoginIds(usuarios', e, s)]_vars

\* C27 witness: a resolution that claimed a registered account, linking the
\* subject id and replacing the avatar, while another account exists, the
\* registered password still opening the claimed account
C27_Witness ==
    \E p \in Procs :
        /\ GoogleDone(p) /\ resp[p].why = "by_email"
        /\ criadoPor[resp[p].id] = "register"
        /\ RowById(resp[p].id).google_sub = req[p].sub
        /\ RowById(resp[p].id).foto_url = pic1
        /\ Cardinality(usuarios) = 2
        /\ resp[p].id \in LoginIds(usuarios, RowById(resp[p].id).email, pw1)

\* the fields of a registration request satisfy the input rules
ValidRegistration(r) ==
    /\ Len(r.nome) >= 2
    /\ ParseAddressOK(r.email)
    /\ Len(r.senha) >= RegisterMinLen /\ ~Contains(r.senha, " ")

\* C28: a registration touches the table only in its last step and only on
\* success: the validation step sends no statement and only valid requests
\* go on to the storage; an answer 400, 409 or 5xx leaves the table as it
\* was; the answer 201 comes with exactly one account added, the one of the
\* request.
C28_RegistrationEffect ==
    [][\A p \in Procs :
          /\ (pc[p] = "idle" /\ (pc'[p] = "reg_check" \/ resp'[p].why = "validation"))
             => /\ usuarios' = usuarios /\ nextId' = nextId
                /\ pc'[p] = "done" => resp'[p].status = 400
          /\ pc'[p] \in {"reg_check", "reg_insert"} => ValidRegistration(req'[p])
          /\ (pc[p] = "reg_check" /\ pc'[p] = "reg_insert") => usuarios' = usuarios
          /\ (pc[p] \in {"reg_check", "reg_insert"} /\ pc'[p] = "done")
             => IF resp'[p].status = 201
                THEN \E r \in usuarios' :
                        /\ r.id \notin Ids
                        /\ usuarios' = usuarios \cup {r}
                        /\ r.nome = req[p].nome /\ r.email = req[p].email
                        /\ r.senha_hash = GenerateFromPassword(req[p].senha)
                ELSE /\ resp'[p].status \in {409, 500}
                     /\ usuarios' = usuarios]_vars

\* C28 witness: a registration that passed the pre-check and whose INSERT
\* failed, answered 500 with the other account still the only one
C28_Witness ==
    \E p \in Procs :
        /\ RegisterDone(p) /\ resp[p].why = "insert_failed"
        /\ resp[p].status = 500
        /\ Cardinality(usuarios) = 1
        /\ EmailCI(req[p].email) = {}

\* C29: the tutorial-flag update for id N (its statement answered by the
\* storage) sets the tutorial flag of the account with id N to the value of
\* the body, or to true when the body has none, and changes no other field
\* and no other account; when no account has id N it answers not-found and
\* the table is unchanged.
C29_TutorialFlagOnly ==
    [][\A p \in Procs, id \in 1..MaxId, b \in TutorialBodies :
          MarcarTutorialVistoHandler(p, id, b, TRUE)
          => IF id \in Ids
             THEN /\ usuarios' =
                        (usuarios \ {RowById(id)}) \cup
                        {[RowById(id) EXCEPT
                             !.tutorial_visto = IF b = << >> THEN TRUE ELSE b[1]]}
                  /\ resp'[p].status = 204
             ELSE /\ usuarios' = usuarios
                  /\ resp'[p].status = 404
                  /\ resp'[p].msg = "Usuário não encontrado"]_vars

\* C29 witness: the flag of one account set while the other account, with a
\* profile-set credential, keeps its flag
C29_Witness ==
    \E p \in Procs :
        /\ pc[p] = "done" /\ resp[p].why = "tutorial"
        /\ RowById(resp[p].row).tutorial_visto
        /\ \E r \in usuarios :
              r.id # resp[p].row /\ ~r.tutorial_visto /\ r.id \in senhaViaPerfil

\* the branches in which the header-based listing and the user lookup answer
HeaderWhys == {"header_failed", "header_unauth", "anos_failed", "anos"}
BuscaWhys  == {"busca", "busca_failed", "busca_norow"}

\* C30: a login, a header-based identity resolution and a user lookup by
\* email leave the account table as it was; and no step of any operation
\* removes an account or changes the id of one: every account is still
\* there afterwards, under the same id and email.
C30_ReadersAndNoRemoval ==
    [][ /\ \A p \in Procs :
              ( /\ pc[p] = "idle" /\ pc'[p] = "done"
                /\ resp'[p].why \in LoginWhys \cup HeaderWhys \cup BuscaWhys )
              => (usuarios' = usuarios /\ nextId' = nextId)
        /\ \A r \in usuarios : \E r2 \in usuarios' :
              r2.id = r.id /\ r2.email = r.email
        /\ Cardinality(usuarios') >= Cardinality(usuarios) ]_vars

\* C30 witness: a header-based resolution answered for one of two accounts,
\* one of them federated, after a profile update and a tutorial-flag update
C30_Witness ==
    \E p \in Procs :
        /\ pc[p] = "done" /\ resp[p].why = "anos" /\ resp[p].row \in Ids
        /\ Cardinality(usuarios) = 2
        /\ \E r \in usuarios : criadoPor[r.id] = "google"
        /\ \E r \in usuarios : r.id \in senhaViaPerfil
        /\ \E r \in usuarios : r.tutorial_visto
====
